---- MODULE Spec2Model ----
(***************************************************************************)
(* f5: run a command, kill and restart it on file changes and key presses. *)
(*                                                                         *)
(* The model follows src/f5.go (type Run and its methods) and              *)
(* src/f5/main.go (main).  There are four units of execution:              *)
(*   "main"   main(): New, Start, go ListenForKeys, <-done, Close          *)
(*   "coord"  the goroutine of Start that consumes r.restart               *)
(*   "watch"  the goroutine of watch that consumes the fsnotify channels   *)
(*   "keys"   ListenForKeys                                                *)
(* Restart and kill are not atomic in Go: each access to r.process and     *)
(* each system call is a step of the calling unit, so the steps of two     *)
(* callers interleave.                                                     *)
(***************************************************************************)
EXTENDS Naturals, FiniteSets, Sequences

VARIABLES
    pc,         \* position of each unit of execution
    process,    \* Run.process: the recorded child handle (a pid) or Nil
    child,      \* OS state of each child process group, by pid
    signalled,  \* pids whose process group syscall.Kill has been called on
    k,          \* per caller: the locals and reports of its call of kill()
    cmd,        \* per caller: cmd.Process of the command Restart launched
    restart,    \* number of values buffered in the channel Run.restart
    cancelled,  \* ctx.Done() is closed
    term,       \* mode of the terminal /dev/tty
    restores,   \* number of calls of r.term.Restore()
    watcher,    \* state of the fsnotify watcher
    requests,   \* restart triggers accepted from the file system and keyboard
    initial,    \* number of pushes done by the deferred function of Start
    executed,   \* number of calls of Restart
    failures,   \* number of reports "Cannot run command" of Restart
    prev,       \* the handle most recently recorded by Restart, or Nil
    event,      \* the event the listener is pushing a signal for, or NoEvent
    tree,       \* the working directory and everything below it
    dirs        \* the directories watch has registered with the watcher

vars == <<pc, process, child, signalled, k, cmd, restart, cancelled, term,
          restores, watcher, requests, initial, executed, failures, prev,
          event, tree, dirs>>

----------------------------------------------------------------------------
(* Bounds of the model *)

\* capacity of the channel Run.restart; make(chan bool, 100) in the source,
\* scaled down so that a full channel is reachable
Capacity == 2

\* number of children the OS can be asked to launch in one run
MaxChildren == 2

\* number of file-system and keyboard triggers in one run
MaxRequests == 2

----------------------------------------------------------------------------
(* Values *)

Nil == 0

Pids == 1..MaxChildren

Units == {"main", "coord", "watch", "keys"}

\* the units that call kill(): Close, and Restart from the two loops
Killers == {"main", "coord", "keys"}

\* the units that call Restart
Restarters == {"coord", "keys"}

\* the keys terminput.Read can deliver, by e.String()
Keys == {"F5", " ", "DC2", "x"}

\* key presses that reach the call of Restart in the switch of ListenForKeys
IsTrigger(key) == key \in {"DC2", " ", "F5"}

\* outcome of a kill() call that has not touched anything yet
NoKill == [pid |-> Nil, interr |-> "none", killpid |-> Nil,
           killerr |-> "none", msgs |-> {}]

\* the process is running: main has neither returned nor called log.Fatalf
Alive == pc["main"] \notin {"fatal_new", "fatal_term", "fatal_start", "exited"}

\* the pid the OS gives to the next child
NextPid == Cardinality({p \in Pids : child[p] # "none"}) + 1

\* results syscall.Kill(-pid, sig) can have: ESRCH needs the group to be gone;
\* any other error (EPERM, ...) is up to the OS
SigErrs(p) == IF child[p] = "exited" THEN {"nil", "esrch", "other"}
              ELSE {"nil", "other"}

\* where kill() returns to
AfterKill(t) == IF t = "main" THEN "exited" ELSE "launch"

\* where Restart returns to
Return(t) == IF t = "coord" THEN "select" ELSE "check"

\* the listener has no event in hand
NoEvent == [op |-> {}, ext |-> ""]

----------------------------------------------------------------------------
(* The directory tree watch scans *)

\* supportedExtensions
supportedExtensions == {".py", ".js", ".java", ".ts", ".go",
                        ".cpp", ".rb", ".php", ".cs", ".c"}

\* supportedExtensionMap[ext], as filled by init()
supportedExtensionMap(ext) == ext \in supportedExtensions

\* depth of the trees of the model below the working directory
MaxDepth == 2

\* number of entries of a directory of the model
MaxEntries == 2

\* the file names of the model in the order os.ReadDir lists them, each as
\* the sequence of its dots and dot-free parts: ".a", "a", "a.go"
NameOrder == << <<".", "a">>, <<"a">>, <<"a", ".", "go">> >>

Names == {NameOrder[i] : i \in 1..Len(NameOrder)}

\* position of a name in the listing order
Rank(name) == CHOOSE i \in 1..Len(NameOrder) : NameOrder[i] = name

\* the text of a dot followed by a dot-free part
Suffix(part) == IF part = "go" THEN ".go" ELSE ".a"

\* filepath.Ext: the suffix beginning at the final dot, "" without a dot
Ext(name) ==
    LET dots == {i \in 1..Len(name) : name[i] = "."}
    IN  IF dots = {} THEN ""
        ELSE LET last == CHOOSE i \in dots : \A j \in dots : j <= i
             IN  IF last = Len(name) THEN "." ELSE Suffix(name[last + 1])

\* strings.HasPrefix(filepath.Base(s), "."), on the last name of the path
HasDotPrefix(name) == name[1] = "."

\* the listings of a directory: at most MaxEntries entries, sorted by name
Listings(E) ==
    {ks \in UNION {[1..n -> E] : n \in 0..MaxEntries} :
        \A i, j \in DOMAIN ks : i < j => Rank(ks[i].name) < Rank(ks[j].name)}

\* the files, and the directories of at most d levels
RECURSIVE Entries(_)
Entries(d) ==
    {[name |-> n, dir |-> FALSE, kids |-> <<>>] : n \in Names}
    \cup (IF d = 0 THEN {}
          ELSE {[name |-> n, dir |-> TRUE, kids |-> ks] :
                   n \in Names, ks \in Listings(Entries(d - 1))})

\* the working directories of the model
Trees == {e \in Entries(MaxDepth) : e.dir}

\* a working directory "a" holding the file a.go
SampleTree ==
    [name |-> <<"a">>, dir |-> TRUE,
     kids |-> <<[name |-> <<"a", ".", "go">>, dir |-> FALSE,
                 kids |-> <<>>]>>]

\* ioutil.ReadDir(s) and the loop over files: some entry, of either kind,
\* has a supported extension
HasCode(e) ==
    \E i \in DOMAIN e.kids : supportedExtensionMap(Ext(e.kids[i].name))

\* filepath.WalkDir with the callback of watch, from the entry e at path:
\* the directories appended to dirs, in the order of the walk
RECURSIVE WalkDir(_, _)
WalkDir(path, e) ==
    LET RECURSIVE below(_)
        below(i) == IF i > Len(e.kids) THEN <<>>
                    ELSE WalkDir(Append(path, e.kids[i].name), e.kids[i])
                         \o below(i + 1)
    IN  IF ~e.dir THEN <<>>
        ELSE IF HasDotPrefix(e.name) THEN <<>>
        ELSE (IF HasCode(e) THEN <<path>> ELSE <<>>) \o below(1)

----------------------------------------------------------------------------
\* the state main starts from, whatever the working directory
Boot ==
    /\ pc = [u \in Units |-> IF u = "main" THEN "new" ELSE "idle"]
    /\ process = Nil
    /\ child = [p \in Pids |-> "none"]
    /\ signalled = {}
    /\ k = [t \in Killers |-> NoKill]
    /\ cmd = [t \in Restarters |-> Nil]
    /\ restart = 0
    /\ cancelled = FALSE
    /\ term = "closed"
    /\ restores = 0
    /\ watcher = "none"
    /\ requests = 0
    /\ initial = 0
    /\ executed = 0
    /\ failures = 0
    /\ prev = Nil
    /\ event = NoEvent
    /\ dirs = <<>>

\* the program starts in the working directory SampleTree
Init == Boot /\ tree = SampleTree

\* the program starts in any working directory of the model
ScanInit == Boot /\ tree \in Trees

----------------------------------------------------------------------------
(* main: New *)

\* New: the watcher is created first, then the terminal is opened; main
\* calls log.Fatalf when New returns an error
New ==
    /\ pc["main"] = "new"
    /\ \/ /\ pc' = [pc EXCEPT !["main"] = "fatal_new"] \* NewWatcher fails
          /\ UNCHANGED <<watcher, term>>
       \/ /\ pc' = [pc EXCEPT !["main"] = "fatal_term"] \* term.Open fails
          /\ watcher' = "open"
          /\ UNCHANGED term
       \/ /\ pc' = [pc EXCEPT !["main"] = "start"]
          /\ watcher' = "open"
          /\ term' = "orig"
    /\ UNCHANGED <<process, child, signalled, k, cmd, restart, cancelled,
                   restores, requests, initial, executed, failures,
                   prev, event, tree, dirs>>

(* main: Start *)

\* Start: the consumer goroutine is spawned before watch is called
StartSpawn ==
    /\ pc["main"] = "start"
    /\ pc' = [pc EXCEPT !["main"] = "watch", !["coord"] = "select"]
    /\ UNCHANGED <<process, child, signalled, k, cmd, restart, cancelled,
                   term, restores, watcher, requests, initial, executed,
                   failures, prev, event, tree, dirs>>

\* watch: os.Getwd, the walk whose result is dropped, r.watcher.Add of each
\* directory found, and the spawn of the listener
Watch ==
    /\ pc["main"] = "watch"
    /\ \/ /\ pc' = [pc EXCEPT !["main"] = "defer_err"]    \* os.Getwd fails
          /\ dirs' = dirs
       \/ /\ pc' = [pc EXCEPT !["main"] = "defer_ok", !["watch"] = "select"]
          /\ dirs' = WalkDir(<<tree.name>>, tree)
    /\ UNCHANGED <<process, child, signalled, k, cmd, restart, cancelled,
                   term, restores, watcher, requests, initial, executed,
                   failures, prev, event, tree>>

\* StartDefer with the push forgotten: Start returns without r.restart <- true
StartDeferNoPush ==
    /\ pc["main"] \in {"defer_ok", "defer_err"}
    /\ pc' = [pc EXCEPT !["main"] =
                 IF pc["main"] = "defer_ok" THEN "golisten"
                 ELSE "start_failed"]
    /\ UNCHANGED <<process, child, signalled, k, cmd, restart, cancelled,
                   term, restores, watcher, requests, initial, executed,
                   failures, prev, event, tree, dirs>>

\* the deferred function of Start: r.restart <- true, a blocking send
StartDefer ==
    /\ pc["main"] \in {"defer_ok", "defer_err"}
    /\ restart < Capacity
    /\ restart' = restart + 1
    /\ initial' = initial + 1
    /\ pc' = [pc EXCEPT !["main"] =
                 IF pc["main"] = "defer_ok" THEN "golisten"
                 ELSE "start_failed"]
    /\ UNCHANGED <<process, child, signalled, k, cmd, cancelled, term,
                   restores, watcher, requests, executed, failures,
                   prev, event, tree, dirs>>

\* main: Start has returned an error: log.Fatalf ends the process
Fatal ==
    /\ pc["main"] = "start_failed"
    /\ pc' = [pc EXCEPT !["main"] = "fatal_start"]
    /\ UNCHANGED <<process, child, signalled, k, cmd, restart, cancelled,
                   term, restores, watcher, requests, initial, executed,
                   failures, prev, event, tree, dirs>>

\* main: go r.ListenForKeys(ctx), then signal.Notify
GoListen ==
    /\ pc["main"] = "golisten"
    /\ pc' = [pc EXCEPT !["main"] = "wait", !["keys"] = "cbreak"]
    /\ UNCHANGED <<process, child, signalled, k, cmd, restart, cancelled,
                   term, restores, watcher, requests, initial, executed,
                   failures, prev, event, tree, dirs>>

\* main: <-done receives an interrupt or termination signal
Signal ==
    /\ pc["main"] = "wait"
    /\ pc' = [pc EXCEPT !["main"] = "close"]
    /\ UNCHANGED <<process, child, signalled, k, cmd, restart, cancelled,
                   term, restores, watcher, requests, initial, executed,
                   failures, prev, event, tree, dirs>>

\* Close: r.term.Restore()
CloseRestore ==
    /\ pc["main"] = "close"
    /\ term' = "orig"
    /\ restores' = restores + 1
    /\ pc' = [pc EXCEPT !["main"] = "close_watcher"]
    /\ UNCHANGED <<process, child, signalled, k, cmd, restart, cancelled,
                   watcher, requests, initial, executed, failures,
                   prev, event, tree, dirs>>

\* Close: r.watcher.Close(); r.kill() follows
CloseWatcher ==
    /\ pc["main"] = "close_watcher"
    /\ watcher' = "closed"
    /\ pc' = [pc EXCEPT !["main"] = "kill"]
    /\ UNCHANGED <<process, child, signalled, k, cmd, restart, cancelled,
                   term, restores, requests, initial, executed, failures,
                   prev, event, tree, dirs>>

----------------------------------------------------------------------------
(* kill, called by Close and by Restart *)

\* KillOutcome without the escalation: the interrupt failure is reported
\* and no SIGKILL is sent
KillOutcomeNoEscalation(pid, interr, killerr) ==
    IF interr = "other"
    THEN [NoKill EXCEPT !.pid = pid, !.interr = interr,
                        !.msgs = {"cannot interrupt"}]
    ELSE [NoKill EXCEPT !.pid = pid, !.interr = interr]

\* KillOutcome without the test for "no such process": every error of the
\* interrupt escalates
KillOutcomeAnyError(pid, interr, killerr) ==
    IF interr # "nil"
    THEN [pid |-> pid, interr |-> interr, killpid |-> pid,
          killerr |-> killerr,
          msgs |-> {"cannot interrupt", "sending sigkill"} \cup
                   (IF killerr = "nil" THEN {} ELSE {"cannot be killed"})]
    ELSE [NoKill EXCEPT !.pid = pid, !.interr = interr]

\* what kill() has done once its signals are sent to the group of pid:
\* SIGINT with result interr; only if that is an error other than "no such
\* process", the two reports and SIGKILL with result killerr, reported if
\* it is an error
KillOutcome(pid, interr, killerr) ==
    IF interr = "other"
    THEN [pid |-> pid, interr |-> interr, killpid |-> pid,
          killerr |-> killerr,
          msgs |-> {"cannot interrupt", "sending sigkill"} \cup
                   (IF killerr = "nil" THEN {} ELSE {"cannot be killed"})]
    ELSE [NoKill EXCEPT !.pid = pid, !.interr = interr]

\* KillSignal without the system calls: the handle is read and nothing is
\* sent to the process group
KillSignalNoSend(t) ==
    /\ Alive
    /\ pc[t] = "kill"
    /\ IF process = Nil
       THEN /\ k' = [k EXCEPT ![t] = NoKill]
            /\ pc' = [pc EXCEPT ![t] = AfterKill(t)]
       ELSE /\ k' = [k EXCEPT ![t] = [NoKill EXCEPT !.pid = process]]
            /\ pc' = [pc EXCEPT ![t] = "clear"]
    /\ UNCHANGED <<process, child, signalled, cmd, restart, cancelled, term,
                   restores, watcher, requests, initial, executed, failures,
                   prev, event, tree, dirs>>

\* kill: if r.process != nil { pid := r.process.Pid; the SIGINT and, when
\* it fails, the SIGKILL to -pid.  The system calls touch nothing of Run.
KillSignal(t) ==
    /\ Alive
    /\ pc[t] = "kill"
    /\ IF process = Nil
       THEN /\ k' = [k EXCEPT ![t] = NoKill]
            /\ pc' = [pc EXCEPT ![t] = AfterKill(t)]
            /\ UNCHANGED signalled
       ELSE /\ \E interr \in SigErrs(process), killerr \in SigErrs(process) :
                  k' = [k EXCEPT ![t] = KillOutcome(process, interr, killerr)]
            /\ signalled' = signalled \cup {process}
            /\ pc' = [pc EXCEPT ![t] = "clear"]
    /\ UNCHANGED <<process, child, cmd, restart, cancelled, term, restores,
                   watcher, requests, initial, executed, failures,
                   prev, event, tree, dirs>>

\* kill: r.process = nil
KillClear(t) ==
    /\ Alive
    /\ pc[t] = "clear"
    /\ process' = Nil
    /\ pc' = [pc EXCEPT ![t] = AfterKill(t)]
    /\ UNCHANGED <<child, signalled, k, cmd, restart, cancelled, term,
                   restores, watcher, requests, initial, executed,
                   failures, prev, event, tree, dirs>>

----------------------------------------------------------------------------
(* Restart after kill() has returned *)

\* Restart: err := cmd.Start()
CmdStart(t) ==
    /\ Alive
    /\ pc[t] = "launch"
    /\ \/ /\ pc' = [pc EXCEPT ![t] = "launchfail"]
          /\ UNCHANGED <<child, cmd>>
       \/ /\ NextPid <= MaxChildren
          /\ child' = [child EXCEPT ![NextPid] = "running"]
          /\ cmd' = [cmd EXCEPT ![t] = NextPid]
          /\ pc' = [pc EXCEPT ![t] = "record"]
    /\ k' = [k EXCEPT ![t] = [NoKill EXCEPT !.pid = k[t].pid]]
    /\ UNCHANGED <<process, signalled, restart, cancelled, term, restores,
                   watcher, requests, initial, executed, failures,
                   prev, event, tree, dirs>>

\* Restart: the report "Cannot run command" and the return
LaunchFail(t) ==
    /\ Alive
    /\ pc[t] = "launchfail"
    /\ pc' = [pc EXCEPT ![t] = Return(t)]
    /\ failures' = failures + 1
    /\ k' = [k EXCEPT ![t] = NoKill]
    /\ UNCHANGED <<process, child, signalled, cmd, restart, cancelled, term,
                   restores, watcher, requests, initial, executed,
                   prev, event, tree, dirs>>

\* Restart: r.process = cmd.Process, the banner, go cmd.Wait(), the return
Record(t) ==
    /\ Alive
    /\ pc[t] = "record"
    /\ process' = cmd[t]
    /\ prev' = cmd[t]
    /\ cmd' = [cmd EXCEPT ![t] = Nil]
    /\ k' = [k EXCEPT ![t] = NoKill]
    /\ pc' = [pc EXCEPT ![t] = Return(t)]
    /\ UNCHANGED <<child, signalled, restart, cancelled, term, restores,
                   watcher, requests, initial, executed, failures, event,
                   tree, dirs>>

----------------------------------------------------------------------------
(* the consumer goroutine of Start *)

\* CoordRecv that calls Restart without taking the value off the channel
CoordRecvNoTake ==
    /\ Alive
    /\ pc["coord"] = "select"
    /\ restart > 0
    /\ executed' = executed + 1
    /\ pc' = [pc EXCEPT !["coord"] = "kill"]
    /\ UNCHANGED <<process, child, signalled, k, cmd, restart, cancelled,
                   term, restores, watcher, requests, initial, failures,
                   prev, event, tree, dirs>>

\* CoordRecv that empties the channel before the one call of Restart
CoordRecvDrain ==
    /\ Alive
    /\ pc["coord"] = "select"
    /\ restart > 0
    /\ restart' = 0
    /\ executed' = executed + 1
    /\ pc' = [pc EXCEPT !["coord"] = "kill"]
    /\ UNCHANGED <<process, child, signalled, k, cmd, cancelled, term,
                   restores, watcher, requests, initial, failures,
                   prev, event, tree, dirs>>

\* case <-r.restart: r.Restart(ctx)
CoordRecv ==
    /\ Alive
    /\ pc["coord"] = "select"
    /\ restart > 0
    /\ restart' = restart - 1
    /\ executed' = executed + 1
    /\ pc' = [pc EXCEPT !["coord"] = "kill"]
    /\ UNCHANGED <<process, child, signalled, k, cmd, cancelled, term,
                   restores, watcher, requests, initial, failures,
                   prev, event, tree, dirs>>

\* case <-ctx.Done(): return
CoordDone ==
    /\ Alive
    /\ pc["coord"] = "select"
    /\ cancelled
    /\ pc' = [pc EXCEPT !["coord"] = "done"]
    /\ UNCHANGED <<process, child, signalled, k, cmd, restart, cancelled,
                   term, restores, watcher, requests, initial, executed,
                   failures, prev, event, tree, dirs>>

----------------------------------------------------------------------------
(* the listener goroutine of watch *)

\* the bits of fsnotify.Op
OpBits == {"Create", "Write", "Remove", "Rename", "Chmod"}

\* the values of event.Op the events of the model carry: one bit, or a
\* write together with a change of mode
Ops == {{b} : b \in OpBits} \cup {{"Write", "Chmod"}}

\* values of filepath.Ext(event.Name) the events of the model carry
Exts == {".go", ".txt", ""}

\* the first filter alone: any write passes, whatever the extension
QualifiesAnyExt(op, ext) == "Write" \in op

\* the two filters of the listener: event.Op&fsnotify.Write == fsnotify.Write
\* and a supported extension
Qualifies(op, ext) == "Write" \in op /\ supportedExtensionMap(ext)

\* case <-ctx.Done(): return, with the deferred r.watcher.Close()
WatchDone ==
    /\ Alive
    /\ pc["watch"] = "select"
    /\ cancelled
    /\ watcher' = "closed"
    /\ pc' = [pc EXCEPT !["watch"] = "done"]
    /\ UNCHANGED <<process, child, signalled, k, cmd, restart, cancelled,
                   term, restores, requests, initial, executed, failures,
                   prev, event, tree, dirs>>

\* case event, ok := <-r.watcher.Events with ok true: the two filters, each
\* with its continue, then the report "Modified file"
WatchEvent ==
    /\ Alive
    /\ pc["watch"] = "select"
    /\ watcher = "open"
    /\ \E op \in Ops, ext \in Exts :
          IF Qualifies(op, ext)
          THEN /\ requests < MaxRequests
               /\ requests' = requests + 1
               /\ event' = [op |-> op, ext |-> ext]
               /\ pc' = [pc EXCEPT !["watch"] = "push"]
          ELSE UNCHANGED <<pc, requests, event>>
    /\ UNCHANGED <<process, child, signalled, k, cmd, restart, cancelled,
                   term, restores, watcher, initial, executed, failures,
                   prev, tree, dirs>>

\* r.restart <- true in the listener: a blocking send
WatchPush ==
    /\ Alive
    /\ pc["watch"] = "push"
    /\ restart < Capacity
    /\ restart' = restart + 1
    /\ event' = NoEvent
    /\ pc' = [pc EXCEPT !["watch"] = "select"]
    /\ UNCHANGED <<process, child, signalled, k, cmd, cancelled, term,
                   restores, watcher, requests, initial, executed,
                   failures, prev, tree, dirs>>

\* case err, ok := <-r.watcher.Errors with ok true: the listener delivers
\* an error
WatchError ==
    /\ Alive
    /\ pc["watch"] = "select"
    /\ watcher = "open"
    /\ pc' = [pc EXCEPT !["watch"] = "report"]
    /\ UNCHANGED <<process, child, signalled, k, cmd, restart, cancelled,
                   term, restores, watcher, requests, initial, executed,
                   failures, prev, event, tree, dirs>>

\* fmt.Println("Error:", err): the error is printed and the for loop goes
\* round again, there is no return
WatchReport ==
    /\ Alive
    /\ pc["watch"] = "report"
    /\ pc' = [pc EXCEPT !["watch"] = "select"]
    /\ UNCHANGED <<process, child, signalled, k, cmd, restart, cancelled,
                   term, restores, watcher, requests, initial, executed,
                   failures, prev, event, tree, dirs>>

\* either channel is closed (ok false): the report and the return, with the
\* deferred r.watcher.Close()
WatchHalt ==
    /\ Alive
    /\ pc["watch"] = "select"
    /\ watcher = "closed"
    /\ pc' = [pc EXCEPT !["watch"] = "done"]
    /\ UNCHANGED <<process, child, signalled, k, cmd, restart, cancelled,
                   term, restores, watcher, requests, initial, executed,
                   failures, prev, event, tree, dirs>>

----------------------------------------------------------------------------
(* ListenForKeys *)

\* r.term.SetCbreak()
KeysCbreak ==
    /\ Alive
    /\ pc["keys"] = "cbreak"
    /\ term' = "cbreak"
    /\ pc' = [pc EXCEPT !["keys"] = "check"]
    /\ UNCHANGED <<process, child, signalled, k, cmd, restart, cancelled,
                   restores, watcher, requests, initial, executed,
                   failures, prev, event, tree, dirs>>

\* if ctx.Err() != nil { return }, with the deferred r.term.Restore()
KeysCheck ==
    /\ Alive
    /\ pc["keys"] = "check"
    /\ IF cancelled
       THEN /\ term' = "orig"
            /\ restores' = restores + 1
            /\ pc' = [pc EXCEPT !["keys"] = "done"]
       ELSE /\ pc' = [pc EXCEPT !["keys"] = "read"]
            /\ UNCHANGED <<term, restores>>
    /\ UNCHANGED <<process, child, signalled, k, cmd, restart, cancelled,
                   watcher, requests, initial, executed, failures,
                   prev, event, tree, dirs>>

\* e, _ := terminput.Read(r.term) and the switch: the three triggers call
\* r.Restart(ctx), any other key goes round the loop
KeyPress ==
    /\ Alive
    /\ pc["keys"] = "read"
    /\ \E key \in Keys :
          IF IsTrigger(key)
          THEN /\ requests < MaxRequests
               /\ requests' = requests + 1
               /\ executed' = executed + 1
               /\ pc' = [pc EXCEPT !["keys"] = "kill"]
          ELSE /\ pc' = [pc EXCEPT !["keys"] = "check"]
               /\ UNCHANGED <<requests, executed>>
    /\ UNCHANGED <<process, child, signalled, k, cmd, restart, cancelled,
                   term, restores, watcher, initial, failures, prev, event,
                   tree, dirs>>

----------------------------------------------------------------------------
(* the environment *)

\* the caller of Start and ListenForKeys cancels ctx
Cancel ==
    /\ Alive
    /\ ~cancelled
    /\ cancelled' = TRUE
    /\ UNCHANGED <<pc, process, child, signalled, k, cmd, restart, term,
                   restores, watcher, requests, initial, executed,
                   failures, prev, event, tree, dirs>>

\* a child's process group is gone: it ended by itself or after a signal
ChildExit(p) ==
    /\ child[p] = "running"
    /\ child' = [child EXCEPT ![p] = "exited"]
    /\ UNCHANGED <<pc, process, signalled, k, cmd, restart, cancelled, term,
                   restores, watcher, requests, initial, executed,
                   failures, prev, event, tree, dirs>>

----------------------------------------------------------------------------
(* Specifications *)

\* the steps of main up to the wait for a signal
MainStep == New \/ StartSpawn \/ Watch \/ StartDefer \/ Fatal \/ GoListen

\* the steps of Close
CloseStep == CloseRestore \/ CloseWatcher

\* the steps of Restart and kill of one caller
RestartStep(t) ==
    \/ KillSignal(t) \/ KillClear(t)
    \/ CmdStart(t) \/ LaunchFail(t) \/ Record(t)

\* the steps of the consumer goroutine
CoordStep == CoordRecv \/ CoordDone \/ RestartStep("coord")

\* the steps of the program that wait for nothing outside it
WatchStep == WatchDone \/ WatchPush \/ WatchReport \/ WatchHalt

KeysStep == KeysCbreak \/ KeysCheck \/ RestartStep("keys")

\* what the outside does: file changes, watcher errors, keys, child exits
Env == WatchEvent \/ WatchError \/ KeyPress \/ \E p \in Pids : ChildExit(p)

Next ==
    \/ MainStep
    \/ Signal
    \/ CloseStep
    \/ \E t \in Killers : RestartStep(t)
    \/ CoordRecv
    \/ CoordDone
    \/ WatchStep
    \/ KeysCbreak
    \/ KeysCheck
    \/ Env
    \/ Cancel

Spec == Init /\ [][Next]_vars

\* main from any working directory of the model up to the return of watch
ScanNext == New \/ StartSpawn \/ Watch

ScanSpec == ScanInit /\ [][ScanNext]_vars

\* a run in which ctx is never cancelled and no signal arrives
NextLive ==
    \/ MainStep
    \/ \E t \in Restarters : RestartStep(t)
    \/ CoordRecv
    \/ WatchPush
    \/ WatchReport
    \/ KeysCbreak
    \/ KeysCheck
    \/ Env

\* the Go scheduler runs every goroutine that can take a step
LiveSpec ==
    /\ Init
    /\ [][NextLive]_vars
    /\ WF_vars(MainStep)
    /\ WF_vars(CoordStep)
    /\ WF_vars(WatchStep)
    /\ WF_vars(KeysStep)

----------------------------------------------------------------------------
(* Properties *)

\* the caller t is inside Restart
InRestart(t) == pc[t] \in {"kill", "clear", "launch", "launchfail", "record"}

\* the children that have been started and whose group no kill has signalled
Live == {p \in Pids : child[p] # "none" /\ p \notin signalled}

\* C1: at most one child is live at any instant: there are never two
\* children that have been started and of which neither has been sent a
\* kill signal.
AtMostOneLive == Cardinality(Live) <= 1

\* C2: restarts are serialized: only the consumer loop ever executes Restart
\* (a key trigger does not), and no two kill-then-start sequences are in
\* progress at the same time.
RestartsSerialized ==
    /\ \A t \in Restarters : InRestart(t) => t = "coord"
    /\ Cardinality({t \in Restarters : InRestart(t)}) <= 1

\* C3: kill comes fully before start: when a restart is about to record the
\* handle of the child it has launched, the child recorded immediately
\* before has been sent the kill signal, the handle it overwrites is not the
\* handle of a child that was never signalled, and the new pid differs from
\* the pid recorded before.
KillBeforeStart ==
    \A t \in Restarters :
        pc[t] = "record" =>
            /\ prev # Nil => prev \in signalled
            /\ process # Nil => process \in signalled
            /\ cmd[t] # prev

\* C4 as stated: when a restart that found a child running has started the
\* new child, the old child's process group is no longer running.
OldChildGone ==
    \A t \in Restarters :
        (pc[t] = "record" /\ k[t].pid # Nil) => child[k[t].pid] = "exited"

\* C4 as amended: when a restart that found a child handle recorded has
\* started the new child, the old child's process group has been sent the
\* kill signal and the new pid differs from the old one; the old child may
\* still be running.
OldChildSignalled ==
    \A t \in Restarters :
        (pc[t] = "record" /\ k[t].pid # Nil) =>
            /\ k[t].pid \in signalled
            /\ cmd[t] # k[t].pid
            /\ child[cmd[t]] # "none"

\* C4 witness: a restart has signalled the old child and started the new
\* one while the old child is still running.
OldChildStillRunning ==
    \E t \in Restarters :
        /\ pc[t] = "record"
        /\ k[t].pid # Nil
        /\ k[t].pid \in signalled
        /\ child[k[t].pid] = "running"
        /\ child[cmd[t]] = "running"

\* the shutdown path has completed: main has returned from Close, or ctx is
\* cancelled and every loop that was started has returned
ShutdownComplete ==
    \/ pc["main"] = "exited"
    \/ /\ cancelled
       /\ pc["main"] = "wait"
       /\ \A u \in {"coord", "watch", "keys"} : pc[u] = "done"

\* C5: once the shutdown path has completed, every child that was started,
\* the last one included, has been sent a kill signal.
NoOrphanAtShutdown ==
    ShutdownComplete => \A p \in Pids : child[p] # "none" => p \in signalled

\* Start has returned without error and main has not begun to shut down
Serving == pc["main"] \in {"golisten", "wait"}

\* the first invocation of the command has been launched: cmd.Start has
\* returned, with the first child or with the launch failure Restart reports
FirstLaunchDone == child[1] # "none" \/ failures > 0

\* C6: Start issues exactly one initial restart, with no external trigger
\* (without one, no more restarts run than initial pushes were made), and
\* when the consumer loop is scheduled fairly that restart eventually
\* launches the first invocation of the command.
InitialRestart ==
    /\ [](initial <= 1 /\ (requests = 0 => executed <= initial))
    /\ (pc["main"] = "watch" ~> initial = 1)
    /\ ((initial = 1 /\ Serving) ~> FirstLaunchDone)

\* C6 witness: the initial restart alone has started the first child.
InitialChildStarted ==
    /\ initial = 1
    /\ requests = 0
    /\ executed = 1
    /\ process = 1
    /\ child[1] = "running"

\* C7: the restarts executed never outnumber the requests made (the initial
\* one and the triggers), and a request pending in the queue is never lost:
\* under fair scheduling, without cancellation, one more restart is executed.
RequestsServed ==
    /\ [](executed <= initial + requests)
    /\ \A n \in 0..(MaxRequests + 1) :
          (restart > 0 /\ Serving /\ executed = n) ~> (executed > n)

\* C7 witness: two triggers arrived together with the initial request and
\* every request has been served by a restart of its own.
AllRequestsServed ==
    /\ requests >= 2
    /\ executed = initial + requests
    /\ restart = 0
    /\ \A t \in Restarters : ~InRestart(t)

\* C8: a producer is never stuck on its push: no producer stands at its
\* send while the queue holds its full capacity.
PushNeverBlocks ==
    /\ ~(pc["watch"] = "push" /\ restart = Capacity)
    /\ ~(pc["main"] \in {"defer_ok", "defer_err"} /\ restart = Capacity)

\* C9: once the terminal is acquired it is restored exactly once on every
\* exit path: Restore is never called twice, and when the program has ended
\* (main returned from Close, or startup failed after New) the terminal is
\* in its original mode.
TerminalRestoredOnce ==
    /\ restores <= 1
    /\ pc["main"] \in {"exited", "fatal_start"} => term = "orig"

\* what kill() does when the interrupt fails with an error other than "no
\* such process"
Escalated(kr) ==
    kr.interr = "other" =>
        /\ kr.killpid = kr.pid
        /\ kr.pid \in signalled
        /\ {"cannot interrupt", "sending sigkill"} \subseteq kr.msgs
        /\ ("cannot be killed" \in kr.msgs) <=> (kr.killerr # "nil")

\* C10: when the interrupt sent by kill fails with an error other than "no
\* such process", the forceful kill goes to the same process group, the
\* interrupt failure and the escalation are reported, a failure of the
\* forceful kill is reported too, and the handle is cleared afterwards.
EscalatesOnInterruptFailure ==
    /\ [](\A t \in Killers : Escalated(k[t]))
    /\ [][\A t \in Killers :
             (pc[t] = "clear" /\ pc'[t] # "clear") => process' = Nil]_vars

\* C10 witness: a kill whose interrupt and forceful kill both failed has
\* returned and the handle is cleared.
EscalationFailed ==
    \E t \in Killers :
        /\ pc[t] = AfterKill(t)
        /\ k[t].interr = "other"
        /\ k[t].killerr = "other"
        /\ "cannot be killed" \in k[t].msgs
        /\ process = Nil

\* C11: when the interrupt sent by kill fails with "no such process", no
\* forceful kill is sent and nothing is reported, and the very next step of
\* that kill clears the handle: the supervisor is Idle.
NoEscalationOnNoSuchProcess ==
    /\ [](\A t \in Killers :
             k[t].interr = "esrch" =>
                 /\ k[t].killpid = Nil
                 /\ k[t].killerr = "none"
                 /\ k[t].msgs = {})
    /\ [][\A t \in Killers :
             (pc[t] = "clear" /\ k[t].interr = "esrch" /\ pc'[t] # "clear")
                 => (process' = Nil /\ pc'[t] = AfterKill(t))]_vars

\* C11 witness: a kill whose interrupt found the group gone has returned,
\* with nothing sent after it and nothing reported, and the handle is nil.
GoneChildKilledQuietly ==
    \E t \in Killers :
        /\ pc[t] = AfterKill(t)
        /\ k[t].interr = "esrch"
        /\ child[k[t].pid] = "exited"
        /\ k[t].msgs = {}
        /\ process = Nil

\* the children cmd.Start has launched
Started == {p \in Pids : child[p] # "none"}

\* C12: when the launch fails during a restart, the supervisor is left Idle
\* (no handle is recorded and the child found recorded has been killed),
\* the failure is reported, the loop of the caller goes on, and nothing is
\* launched again without a further trigger (launches never outnumber the
\* restarts requested).
LaunchFailureLeavesIdle ==
    /\ [](\A t \in Restarters :
             pc[t] = "launchfail" =>
                 /\ process = Nil
                 /\ cmd[t] = Nil
                 /\ k[t].pid # Nil => k[t].pid \in signalled)
    /\ [][\A t \in Restarters :
             (pc[t] = "launchfail" /\ pc'[t] # "launchfail") =>
                 /\ failures' = failures + 1
                 /\ pc'[t] = Return(t)
                 /\ process' = Nil]_vars
    /\ [](Cardinality(Started) + failures <= executed)

\* startup has failed: New returned an error, or Start did
StartupFailed ==
    pc["main"] \in {"fatal_new", "fatal_term", "start_failed", "fatal_start"}

\* C13: a failure that is fatal at startup aborts before any child is
\* started: in no state of a failed startup has a child been launched.
NoChildAfterStartupFailure == StartupFailed => Started = {}

\* C14: when the terminal cannot be opened, New returns its failure with no
\* filesystem listener constructed or left open.
NoListenerWhenTerminalFails == pc["main"] = "fatal_term" => watcher = "none"

\* the consumer loop's receive: from the select into Restart
CoordReceives == pc["coord"] = "select" /\ pc'["coord"] = "kill"

ListenerErrorIsFatal ==
    [][(pc["watch"] = "report" /\ pc'["watch"] # "report")
          => pc'["watch"] = "done"]_vars

\* C18: after the context is cancelled no loop begins a restart, whether a
\* keystroke or a queued signal arrives afterwards.
NoRestartAfterCancel == [][cancelled => executed' = executed]_vars

\* the listener's send completes: out of "push"
ListenerPushes == pc["watch"] = "push" /\ pc'["watch"] # "push"

\* C19: the listener pushes only for an event that is a content write on a
\* path with an allow-listed extension, it pushes exactly one signal for it,
\* and the queue grows by no other step of the listener: only by that push
\* and by the deferred push of Start.
OnlyWritesPush ==
    /\ [](pc["watch"] = "push" =>
             /\ "Write" \in event.op
             /\ event.ext \in supportedExtensions)
    /\ [][ListenerPushes => restart' = restart + 1]_vars
    /\ [][restart' > restart =>
             \/ ListenerPushes
             \/ pc["main"] \in {"defer_ok", "defer_err"}]_vars

\* the only signal in the queue is the one the listener pushed for a write
WriteEventPushed ==
    /\ pc["watch"] = "select"
    /\ initial = 0
    /\ requests = 1
    /\ restart = 1

\* the directories at and below e in pre-order, each with its path, its
\* entry, and whether it or a directory above it has a name starting "."
RECURSIVE AllDirs(_, _, _)
AllDirs(path, e, above) ==
    LET hidden == above \/ HasDotPrefix(e.name)
        RECURSIVE below(_)
        below(i) ==
            IF i > Len(e.kids) THEN <<>>
            ELSE AllDirs(Append(path, e.kids[i].name), e.kids[i], hidden)
                 \o below(i + 1)
    IN  IF ~e.dir THEN <<>>
        ELSE <<[path |-> path, entry |-> e, hidden |-> hidden]>> \o below(1)

\* the directory directly contains a file with an allow-listed extension
ContainsCodeFile(e) ==
    \E i \in DOMAIN e.kids :
        ~e.kids[i].dir /\ Ext(e.kids[i].name) \in supportedExtensions

\* the Watch Set of a working directory
WatchSet(t) ==
    LET sel == SelectSeq(AllDirs(<<t.name>>, t, FALSE),
                         LAMBDA d : ~d.hidden /\ ContainsCodeFile(d.entry))
    IN  [i \in 1..Len(sel) |-> sel[i].path]

\* C15: for every root tree the scan produces exactly, in pre-order, the
\* directories that directly contain a file with an allow-listed extension
\* and are neither hidden nor below a hidden directory.
ScanYieldsWatchSet == pc["main"] = "defer_ok" => dirs = WatchSet(tree)

\* watch has returned without error: the walk is over and each directory it
\* found has been passed to r.watcher.Add
ScanFinished ==
    pc["main"] \notin {"new", "fatal_new", "fatal_term", "start", "watch",
                       "defer_err", "start_failed", "fatal_start"}

\* C20: no child is started before the directory scan has finished and
\* every directory of the Watch Set has been registered with the listener.
NoChildBeforeScan ==
    Started # {} =>
        /\ ScanFinished
        /\ \A i \in DOMAIN WatchSet(tree) :
              \E j \in DOMAIN dirs : dirs[j] = WatchSet(tree)[i]

====
